---- MODULE Spec2Model ----
(***************************************************************************)
(* A model of the `sort` pipe of lib/logstorage/pipe_sort.go:              *)
(* pipeSortProcessor (budget controller, sharded ingest, local sort,       *)
(* k-way heap merge), pipeSortWriteContext (output batcher) and the        *)
(* comparator sortBlockLess.                                               *)
(*                                                                         *)
(* Strings are sequences of byte codes, so that Go's byte-wise string      *)
(* comparison can be computed.  Where two or more bytes "a" (97) follow    *)
(* one another the sequence holds the run as one element, minus their      *)
(* number, so that a value of a million bytes is a short sequence and a    *)
(* string is written in one way only.  Go indexes are kept 0-based in the  *)
(* (blockIdx, rowIdx, rowRefNext, workerID); TLA+ sequences are 1-based,   *)
(* so an access adds one.                                                  *)
(***************************************************************************)
EXTENDS Integers, Sequences, FiniteSets, TLC

(***************************************************************************)
(* Byte strings                                                            *)
(***************************************************************************)

\* len(s): a run counts for its bytes.
RECURSIVE StrLen(_)
StrLen(s) ==
    IF s = <<>> THEN 0
    ELSE (IF Head(s) < 0 THEN 0 - Head(s) ELSE 1) + StrLen(Tail(s))

\* The first byte of a non-empty string, and the string without its first n bytes
\* (n = 1, or n within the run the string begins with).
firstByte(s) == IF Head(s) < 0 THEN 97 ELSE Head(s)

dropBytes(s, n) ==
    IF Head(s) < 0 /\ 0 - Head(s) > n THEN <<Head(s) + n>> \o Tail(s) ELSE Tail(s)

\* Go's `a < b` on strings: byte-wise lexicographic order, a proper prefix first.
RECURSIVE StrLess(_, _)
StrLess(a, b) ==
    IF b = <<>> THEN FALSE
    ELSE IF a = <<>> THEN TRUE
    ELSE IF Head(a) < 0 /\ Head(b) < 0
    THEN LET n == IF Head(a) > Head(b) THEN 0 - Head(a) ELSE 0 - Head(b)
         IN  StrLess(dropBytes(a, n), dropBytes(b, n))
    ELSE IF firstByte(a) # firstByte(b) THEN firstByte(a) < firstByte(b)
    ELSE StrLess(dropBytes(a, 1), dropBytes(b, 1))

IsDigit(ch) == ch >= 48 /\ ch <= 57

\* The index of the first byte ch in s (1-based), 0 when there is none.
RECURSIVE IndexByteFrom(_, _, _)
IndexByteFrom(s, ch, i) ==
    IF i > Len(s) THEN 0
    ELSE IF s[i] = ch THEN i
    ELSE IndexByteFrom(s, ch, i + 1)

IndexByte(s, ch) == IndexByteFrom(s, ch, 1)

RECURSIVE Pow10(_)
Pow10(n) == IF n = 0 THEN 1 ELSE 10 * Pow10(n - 1)

(***************************************************************************)
(* Value coercion                                                          *)
(***************************************************************************)

\* tryParseUint64: a non-empty string of decimal digits.  The model's cells are
\* a few bytes long, far below the 64-bit range.
RECURSIVE DigitsValue(_, _)
DigitsValue(s, acc) ==
    IF s = <<>> THEN acc ELSE DigitsValue(Tail(s), 10 * acc + (Head(s) - 48))

tryParseUint64(s) ==
    IF s # <<>> /\ \A i \in 1..Len(s) : IsDigit(s[i])
    THEN [v |-> DigitsValue(s, 0), ok |-> TRUE]
    ELSE [v |-> 0, ok |-> FALSE]

\* tryParseInt64 (the range checks against MaxInt64 / MinInt64 cannot fail on the
\* model's short cells).
tryParseInt64(s) ==
    IF Len(s) = 0 THEN [v |-> 0, ok |-> FALSE]
    ELSE LET isMinus == s[1] = 45
             rest    == IF isMinus THEN Tail(s) ELSE s
             u       == tryParseUint64(rest)
         IN  IF ~u.ok THEN [v |-> 0, ok |-> FALSE]
             ELSE IF ~isMinus THEN [v |-> u.v, ok |-> TRUE]
             ELSE [v |-> 0 - u.v, ok |-> TRUE]

\* tryParseIPv4: a dotted quad of four decimal octets; zero on failure.
RECURSIVE SplitDots(_, _, _)
SplitDots(s, cur, acc) ==
    IF s = <<>> THEN Append(acc, cur)
    ELSE IF Head(s) = 46 THEN SplitDots(Tail(s), <<>>, Append(acc, cur))
    ELSE SplitDots(Tail(s), Append(cur, Head(s)), acc)

tryParseIPv4(s) ==
    LET parts == SplitDots(s, <<>>, <<>>)
        okPart(p) == Len(p) >= 1 /\ Len(p) <= 3 /\ tryParseUint64(p).ok
                     /\ tryParseUint64(p).v <= 255
    IN  IF Len(parts) = 4 /\ \A i \in 1..4 : okPart(parts[i])
        THEN [v |-> ((tryParseUint64(parts[1]).v * 256 + tryParseUint64(parts[2]).v) * 256
                     + tryParseUint64(parts[3]).v) * 256 + tryParseUint64(parts[4]).v,
              ok |-> TRUE]
        ELSE [v |-> 0, ok |-> FALSE]

\* float64 values are represented exactly, in thousandths (v); NaN is a value apart.
nan == [isNaN |-> TRUE, v |-> 0]

F64(x) == [isNaN |-> FALSE, v |-> x]

IsNaN(f) == f.isNaN

\* tryParseFloat64: [-]digits[.digits], no dot at either end, no exponent.
tryParseFloat64(s) ==
    IF Len(s) = 0 THEN [v |-> nan, ok |-> FALSE]
    ELSE LET minus == s[1] = 45
             t     == IF minus THEN Tail(s) ELSE s
             n     == IndexByte(t, 46)
             sign(x) == IF minus THEN 0 - x ELSE x
         IN  IF n = 0
             THEN LET u == tryParseUint64(t)
                  IN  IF u.ok THEN [v |-> F64(sign(1000 * u.v)), ok |-> TRUE]
                      ELSE [v |-> nan, ok |-> FALSE]
             ELSE IF n = 1 \/ n = Len(t) THEN [v |-> nan, ok |-> FALSE]
             ELSE LET sInt  == SubSeq(t, 1, n - 1)
                      sFrac == SubSeq(t, n + 1, Len(t))
                      nInt  == tryParseUint64(sInt)
                      nFrac == tryParseUint64(sFrac)
                  IN  IF nInt.ok /\ nFrac.ok /\ Len(sFrac) <= 3
                      THEN [v |-> F64(sign(1000 * nInt.v + nFrac.v * Pow10(3 - Len(sFrac)))),
                            ok |-> TRUE]
                      ELSE [v |-> nan, ok |-> FALSE]

(***************************************************************************)
(* Blocks and columns (blockResult, blockResultColumn)                     *)
(*                                                                         *)
(* A block is [timestamps, cs, bytes]: the timestamp vector, the columns   *)
(* and the figure br.sizeBytes() reports for it.  A column is              *)
(* [name, isTime, isConst, encodedValues]: a const column holds its value  *)
(* in encodedValues[0], a time column reads the timestamps, any other      *)
(* column holds one string per row.                                        *)
(***************************************************************************)

RECURSIVE ToDigits(_)
ToDigits(n) == IF n < 10 THEN <<48 + n>> ELSE Append(ToDigits(n \div 10), 48 + (n % 10))

\* The text of a timestamp: "T" and its decimal digits stand for the RFC3339 form.
TimestampString(t) == <<84>> \o ToDigits(t)

RowsLen(br) == Len(br.timestamps)

\* blockResultColumn.getValueAtRow(br, rowIdx), rowIdx 0-based.
getValueAtRow(c, br, rowIdx) ==
    IF c.isTime THEN TimestampString(br.timestamps[rowIdx + 1])
    ELSE IF c.isConst THEN c.encodedValues[1]
    ELSE c.encodedValues[rowIdx + 1]

\* blockResultColumn.getValues(br): the values of all the rows.
getValues(c, br) == [i \in 1..RowsLen(br) |-> getValueAtRow(c, br, i - 1)]

\* blockResult.getColumnByName: the column of that name, a const column holding
\* the empty string when the block has none.
getColumnByName(br, name) ==
    LET found == {i \in 1..Len(br.cs) : br.cs[i].name = name}
    IN  IF found # {}
        THEN br.cs[CHOOSE i \in found : \A j \in found : i <= j]
        ELSE [name |-> name, isTime |-> FALSE, isConst |-> TRUE, encodedValues |-> << <<>> >>]

\* blockResult.sizeBytes()
sizeBytes(br) == br.bytes

\* unsafe.Sizeof of the records the budget is charged for (64-bit build).
SizeofSortBlockByColumn == 56
SizeofBlockResultColumn == 128
SizeofSortBlock == 56
SizeofSortRowRef == 16
SizeofPointer == 8
SizeofNumber == 8

\* strconv.AppendQuote on the model's bytes (none of them needs escaping).
Quote(s) == <<34>> \o s \o <<34>>

marshalJSONKeyValue(dst, k, v) == dst \o Quote(k) \o <<58>> \o Quote(v)

RECURSIVE SumLen(_)
SumLen(values) == IF values = <<>> THEN 0 ELSE StrLen(Head(values)) + SumLen(Tail(values))

(***************************************************************************)
(* Shard ingest: pipeSortProcessorShard.writeBlock                         *)
(***************************************************************************)

\* createInt64Values: the int64 of a value, else its IPv4 number, else 0.
createInt64Values(values) ==
    [i \in 1..Len(values) |->
        IF tryParseInt64(values[i]).ok THEN tryParseInt64(values[i]).v
        ELSE tryParseIPv4(values[i]).v]

\* A float pre-parse that parses nothing.
createFloat64ValuesNaN(values) == [i \in 1..Len(values) |-> nan]

\* createFloat64Values: the float64 of a value, else NaN.
createFloat64Values(values) ==
    [i \in 1..Len(values) |->
        IF tryParseFloat64(values[i]).ok THEN tryParseFloat64(values[i]).v ELSE nan]

\* The single synthesized string column of a block when byFields is empty:
\* per row, every column as "name":"value", in column order.
RECURSIVE JSONRow(_, _, _, _)
JSONRow(br, rowIdx, i, acc) ==
    IF i > Len(br.cs) THEN acc
    ELSE JSONRow(br, rowIdx, i + 1,
                 Append(marshalJSONKeyValue(acc, br.cs[i].name,
                                            getValueAtRow(br.cs[i], br, rowIdx)), 44))

allColumnsValues(br) == [i \in 1..RowsLen(br) |-> JSONRow(br, i - 1, 1, <<>>)]

\* byColumns that hold a const column as a plain one, a value per row.
byColumnForPlain(br, bf) ==
    LET c == getColumnByName(br, bf.name)
    IN  IF c.isTime THEN [c |-> c, i64Values |-> <<>>, f64Values |-> <<>>]
        ELSE [c |-> [c EXCEPT !.isConst = FALSE, !.encodedValues = getValues(c, br)],
              i64Values |-> createInt64Values(getValues(c, br)),
              f64Values |-> createFloat64Values(getValues(c, br))]

\* byColumns of a block for a non-empty byFields.
byColumnFor(br, bf) ==
    LET c == getColumnByName(br, bf.name)
    IN  IF c.isTime THEN [c |-> c, i64Values |-> <<>>, f64Values |-> <<>>]
        ELSE IF c.isConst
        THEN [c |-> c, i64Values |-> createInt64Values(c.encodedValues),
              f64Values |-> createFloat64Values(c.encodedValues)]
        ELSE [c |-> c, i64Values |-> createInt64Values(getValues(c, br)),
              f64Values |-> createFloat64Values(getValues(c, br))]

\* The columns whose name is no byField, in block order.
otherColumnsOf(br, byFields) ==
    SelectSeq(br.cs, LAMBDA c : \A i \in 1..Len(byFields) : byFields[i].name # c.name)

\* The sortBlock appended for br.
newSortBlock(ps, br) ==
    IF Len(ps.byFields) = 0
    THEN [br |-> br,
          byColumns |-> << [c |-> [name |-> <<>>, isTime |-> FALSE, isConst |-> FALSE,
                                   encodedValues |-> allColumnsValues(br)],
                            i64Values |-> [i \in 1..RowsLen(br) |-> 0],
                            f64Values |-> [i \in 1..RowsLen(br) |-> nan]] >>,
          otherColumns |-> br.cs]
    ELSE [br |-> br,
          byColumns |-> [i \in 1..Len(ps.byFields) |-> byColumnFor(br, ps.byFields[i])],
          otherColumns |-> otherColumnsOf(br, ps.byFields)]

\* The bytes shard.writeBlock charges to shard.stateSizeBudget for br.
writeBlockCost(ps, br) ==
    LET b == newSortBlock(ps, br)
        sideArrays == LET F[i \in 0..Len(b.byColumns)] ==
                              IF i = 0 THEN 0
                              ELSE F[i - 1] + SizeofNumber * Len(b.byColumns[i].i64Values)
                                            + SizeofNumber * Len(b.byColumns[i].f64Values)
                      IN  F[Len(b.byColumns)]
    IN  (IF Len(ps.byFields) = 0
         THEN SumLen(b.byColumns[1].c.encodedValues)
              + SizeofSortBlockByColumn + SizeofBlockResultColumn
         ELSE sideArrays + Len(b.byColumns) * SizeofSortBlockByColumn
              + Len(b.otherColumns) * SizeofPointer)
        + sizeBytes(br) + SizeofSortBlock + RowsLen(br) * SizeofSortRowRef

\* The row references of a block's rows, in row order.
newRowRefs(blockIdx, br) == [i \in 1..RowsLen(br) |-> [blockIdx |-> blockIdx, rowIdx |-> i - 1]]

\* pipeSortProcessorShard.writeBlock
shardWriteBlock(shard, br) ==
    [shard EXCEPT !.blocks = Append(@, newSortBlock(shard.ps, br)),
                  !.rowRefs = @ \o newRowRefs(Len(shard.blocks), br),
                  !.stateSizeBudget = @ - writeBlockCost(shard.ps, br)]

(***************************************************************************)
(* The comparator                                                          *)
(***************************************************************************)

getI64ValueAtRow(bc, rowIdx) ==
    IF bc.c.isConst THEN bc.i64Values[1] ELSE bc.i64Values[rowIdx + 1]

getF64ValueAtRow(bc, rowIdx) ==
    IF bc.c.isConst THEN bc.f64Values[1] ELSE bc.f64Values[rowIdx + 1]

\* The effective direction of key idx (1-based).
isDescAt(ps, idx) ==
    LET keyDesc == Len(ps.byFields) > 0 /\ ps.byFields[idx].isDesc
    IN  IF ps.isDesc THEN ~keyDesc ELSE keyDesc

\* The loop body of sortBlockLess from key idx on, over the two rows' blocks.
RECURSIVE lessFrom(_, _, _, _, _, _)
lessFrom(ps, bA, rrA, bB, rrB, idx) ==
    IF idx > Len(bA.byColumns) THEN FALSE
    ELSE
    LET cA == bA.byColumns[idx]
        cB == bB.byColumns[idx]
        isDesc == isDescAt(ps, idx)
        next == lessFrom(ps, bA, rrA, bB, rrB, idx + 1)
    IN  IF cA.c.isConst /\ cB.c.isConst
        THEN IF cA.c.encodedValues[1] = cB.c.encodedValues[1] THEN next
             ELSE StrLess(cA.c.encodedValues[1], cB.c.encodedValues[1])
        ELSE IF cA.c.isTime /\ cB.c.isTime
        THEN LET tA == bA.br.timestamps[rrA.rowIdx + 1]
                 tB == bB.br.timestamps[rrB.rowIdx + 1]
             IN  IF tA = tB THEN next
                 ELSE IF isDesc THEN tB < tA ELSE tA < tB
        ELSE IF cA.c.isTime THEN TRUE
        ELSE IF cB.c.isTime THEN FALSE
        ELSE
        LET uA == getI64ValueAtRow(cA, rrA.rowIdx)
            uB == getI64ValueAtRow(cB, rrB.rowIdx)
        IN  IF uA # 0 /\ uB # 0
            THEN IF uA = uB THEN next
                 ELSE IF isDesc THEN uB < uA ELSE uA < uB
            ELSE
            LET fA == getF64ValueAtRow(cA, rrA.rowIdx)
                fB == getF64ValueAtRow(cB, rrB.rowIdx)
            IN  IF ~IsNaN(fA) /\ ~IsNaN(fB)
                THEN IF fA.v = fB.v THEN next
                     ELSE IF isDesc THEN fB.v < fA.v ELSE fA.v < fB.v
                ELSE
                LET sA == getValueAtRow(cA.c, bA.br, rrA.rowIdx)
                    sB == getValueAtRow(cB.c, bB.br, rrB.rowIdx)
                IN  IF sA = sB THEN next
                    ELSE IF isDesc THEN StrLess(sB, sA) ELSE StrLess(sA, sB)

\* sortBlockLess over two row references of two shards.
lessRowRefs(shardA, rrA, shardB, rrB) ==
    lessFrom(shardA.ps, shardA.blocks[rrA.blockIdx + 1], rrA,
             shardB.blocks[rrB.blockIdx + 1], rrB, 1)

\* sortBlockLess(shardA, rowIdxA, shardB, rowIdxB), the row indexes 0-based.
sortBlockLess(shardA, rowIdxA, shardB, rowIdxB) ==
    lessRowRefs(shardA, shardA.rowRefs[rowIdxA + 1], shardB, shardB.rowRefs[rowIdxB + 1])

(***************************************************************************)
(* local sort: sort.Sort(shard)                                            *)
(***************************************************************************)

\* A swap that loses the element at i, for comparison.
SwapAtOverwrite(seq, i, j) == [seq EXCEPT ![i + 1] = seq[j + 1]]

SwapAt(seq, i, j) == [seq EXCEPT ![i + 1] = seq[j + 1], ![j + 1] = seq[i + 1]]

\* pipeSortProcessorShard.Less(i, j) on the row references rr of shard.
shardLess(shard, rr, i, j) == lessRowRefs(shard, rr[i + 1], shard, rr[j + 1])

\* sort.Sort on at most 12 elements is an insertion sort:
\*   for i := 1; i < n; i++ { for j := i; j > 0 && Less(j, j-1); j-- { Swap(j, j-1) } }
RECURSIVE insertDown(_, _, _)
insertDown(shard, rr, j) ==
    IF j > 0 /\ shardLess(shard, rr, j, j - 1)
    THEN insertDown(shard, SwapAt(rr, j, j - 1), j - 1)
    ELSE rr

RECURSIVE insertionSort(_, _, _)
insertionSort(shard, rr, i) ==
    IF i >= Len(rr) THEN rr ELSE insertionSort(shard, insertDown(shard, rr, i), i + 1)

sortShard(shard) == [shard EXCEPT !.rowRefs = insertionSort(shard, shard.rowRefs, 1)]

(***************************************************************************)
(* The processor                                                           *)
(***************************************************************************)

VARIABLES
    lex,              \* the lexer over the query text: [tokens, pos], pos tokens consumed
    parsed,           \* what parsePipeSort returned: [status, ps], status "none" before the call
    ps,               \* psp.ps: [byFields, isDesc]
    maxStateSize,     \* psp.maxStateSize
    stateSizeBudget,  \* psp.stateSizeBudget (atomic)
    shards,           \* psp.shards: workerID -> [ps, blocks, rowRefs, rowRefNext, stateSizeBudget]
    pending,          \* workerID -> the block of the writeBlock call in its budget loop, or NoBlock
    stop,             \* psp.stopCh is closed
    cancelCalls,      \* how many times psp.cancel() was invoked by writeBlock
    refused,          \* how many writeBlock calls returned without ingesting a non-empty block
    fpc,              \* where flush() is: ingest (not called), sort, init, merge, check_pop, check_fix, done
    sh,               \* flush: the heap of shards (workerIDs)
    shardNext,        \* flush: the cached runner-up shard, NoShard for nil
    wctx,             \* flush: the pipeSortWriteContext [rcs, valuesLen]
    out,              \* the blocks passed to ppBase.writeBlock, in order
    emitted,          \* the rows passed to writeRow, in order: [w, rr] (shard and row reference)
    fret              \* what flush() returned: [err, at], err "none" while it has not returned

vars == <<lex, parsed, ps, maxStateSize, stateSizeBudget, shards, pending, stop, cancelCalls, refused,
          fpc, sh, shardNext, wctx, out, emitted, fret>>

\* stateSizeBudgetChunk = 1 << 20
stateSizeBudgetChunk == 1048576

NoBlock == [timestamps |-> <<>>, cs |-> <<>>, bytes |-> -1]

NoShard == -1

Workers == DOMAIN shards

\* int64(float64(memory.Allowed()) * 0.2)
maxStateSizeFor(allowed) == allowed \div 5

\* pipeSort.newPipeProcessor
newPipeProcessor(config, workersCount, allowed) ==
    /\ lex = [tokens |-> <<>>, pos |-> 0]
    /\ parsed = [status |-> "ok", ps |-> config]
    /\ ps = config
    /\ shards = [w \in 0..(workersCount - 1) |->
                    [ps |-> config, blocks |-> <<>>, rowRefs |-> <<>>, rowRefNext |-> 0,
                     stateSizeBudget |-> stateSizeBudgetChunk]]
    /\ maxStateSize = maxStateSizeFor(allowed) - workersCount * stateSizeBudgetChunk
    /\ stateSizeBudget = maxStateSizeFor(allowed) - workersCount * stateSizeBudgetChunk
    /\ pending = [w \in 0..(workersCount - 1) |-> NoBlock]
    /\ stop = FALSE
    /\ cancelCalls = 0
    /\ refused = 0
    /\ fpc = "ingest"
    /\ sh = <<>>
    /\ shardNext = NoShard
    /\ wctx = [rcs |-> <<>>, valuesLen |-> 0]
    /\ out = <<>>
    /\ emitted = <<>>
    /\ fret = [err |-> "none", at |-> "none"]

\* A writeBlock that cancels whenever it is refused.
droveNegativeAlways(remaining) == TRUE

\* Whether the Add that left `remaining` is the one that took the budget below zero.
droveNegative(remaining) == remaining + stateSizeBudgetChunk >= 0

\* One iteration of the budget loop of writeBlock for worker w holding br
\* (shard.stateSizeBudget < 0): the atomic Add and what follows it up to the next Add.
stealChunk(w, br) ==
    LET remaining == stateSizeBudget - stateSizeBudgetChunk
        credited  == [shards[w] EXCEPT !.stateSizeBudget = @ + stateSizeBudgetChunk]
    IN  /\ stateSizeBudget' = remaining
        /\ IF remaining < 0
           THEN /\ cancelCalls' = IF droveNegative(remaining) THEN cancelCalls + 1 ELSE cancelCalls
                /\ stop' = IF droveNegative(remaining) THEN TRUE ELSE stop
                /\ refused' = refused + 1
                /\ pending' = [pending EXCEPT ![w] = NoBlock]
                /\ UNCHANGED shards
           ELSE /\ IF credited.stateSizeBudget < 0
                   THEN /\ shards' = [shards EXCEPT ![w] = credited]
                        /\ pending' = [pending EXCEPT ![w] = br]
                   ELSE /\ shards' = [shards EXCEPT ![w] = shardWriteBlock(credited, br)]
                        /\ pending' = [pending EXCEPT ![w] = NoBlock]
                /\ UNCHANGED <<stop, cancelCalls, refused>>

\* pipeSortProcessor.writeBlock(workerID, br), up to its first Add on the global budget.
pspWriteBlock(w, br) ==
    /\ pending[w] = NoBlock
    /\ IF RowsLen(br) = 0
       THEN UNCHANGED <<stateSizeBudget, shards, pending, stop, cancelCalls, refused>>
       ELSE IF shards[w].stateSizeBudget < 0
       THEN stealChunk(w, br)
       ELSE /\ shards' = [shards EXCEPT ![w] = shardWriteBlock(shards[w], br)]
            /\ UNCHANGED <<stateSizeBudget, pending, stop, cancelCalls, refused>>
    /\ UNCHANGED <<lex, parsed, ps, maxStateSize, fpc, sh, shardNext, wctx, out, emitted, fret>>

\* A worker calls writeBlock while the query runs (before flush is called).
WriteBlock(w, br) ==
    /\ fpc = "ingest"
    /\ pspWriteBlock(w, br)

\* The next iteration of the budget loop of a writeBlock call.
StealStep(w) ==
    /\ pending[w] # NoBlock
    /\ stealChunk(w, pending[w])
    /\ UNCHANGED <<lex, parsed, ps, maxStateSize, fpc, sh, shardNext, wctx, out, emitted, fret>>

\* The query is cancelled from outside (the stop channel is closed).
Cancel ==
    /\ ~stop
    /\ fpc # "done"
    /\ stop' = TRUE
    /\ UNCHANGED <<lex, parsed, ps, maxStateSize, stateSizeBudget, shards, pending, cancelCalls, refused,
                   fpc, sh, shardNext, wctx, out, emitted, fret>>

(***************************************************************************)
(* container/heap over pipeSortProcessorShardsHeap                         *)
(***************************************************************************)

\* pipeSortProcessorShardsHeap.Less(i, j): the shards' merge heads compared.
heapLess(shs, h, i, j) ==
    sortBlockLess(shs[h[i + 1]], shs[h[i + 1]].rowRefNext, shs[h[j + 1]], shs[h[j + 1]].rowRefNext)

\* heap.down(h, i0, n): the heap after sifting i0 down, and where the element ended.
RECURSIVE heapDown(_, _, _, _)
heapDown(shs, h, i, n) ==
    LET j1 == 2 * i + 1
        j2 == j1 + 1
        j  == IF j2 < n /\ heapLess(shs, h, j2, j1) THEN j2 ELSE j1
    IN  IF j1 >= n THEN [h |-> h, i |-> i]
        ELSE IF ~heapLess(shs, h, j, i) THEN [h |-> h, i |-> i]
        ELSE heapDown(shs, SwapAt(h, i, j), j, n)

\* heap.up(h, j)
RECURSIVE heapUp(_, _, _)
heapUp(shs, h, j) ==
    LET i == (j - 1) \div 2
    IN  IF j <= 0 \/ i = j \/ ~heapLess(shs, h, j, i) THEN h
        ELSE heapUp(shs, SwapAt(h, i, j), i)

\* heap.Init(h): for i := n/2 - 1; i >= 0; i-- { down(h, i, n) }
RECURSIVE heapInitFrom(_, _, _)
heapInitFrom(shs, h, i) ==
    IF i < 0 THEN h ELSE heapInitFrom(shs, heapDown(shs, h, i, Len(h)).h, i - 1)

heapInit(shs, h) == heapInitFrom(shs, h, (Len(h) \div 2) - 1)

\* heap.Pop(h): Swap(0, n-1), down(0, n-1), drop the last.
heapPop(shs, h) ==
    LET n == Len(h) - 1
    IN  SubSeq(heapDown(shs, SwapAt(h, 0, n), 0, n).h, 1, n)

\* heap.Fix(h, i): if !down(h, i, n) { up(h, i) }
heapFix(shs, h, i) ==
    LET d == heapDown(shs, h, i, Len(h))
    IN  IF d.i > i THEN d.h ELSE heapUp(shs, h, i)

(***************************************************************************)
(* The output batcher: pipeSortWriteContext                                *)
(*                                                                         *)
(* The merge state m is [shards, sh, shardNext, wctx, out, emitted].       *)
(***************************************************************************)

\* A flush that leaves the byte counter as it is.
wctxFlushKeepCount(m) ==
    IF Len(m.wctx.rcs) = 0 THEN m
    ELSE [m EXCEPT !.out = Append(@, [workerID |-> 0, cs |-> m.wctx.rcs]),
                   !.wctx.rcs = [i \in 1..Len(m.wctx.rcs) |->
                                    [name |-> m.wctx.rcs[i].name, values |-> <<>>]]]

\* pipeSortWriteContext.flush
wctxFlush(m) ==
    IF Len(m.wctx.rcs) = 0
    THEN [m EXCEPT !.wctx.valuesLen = 0]
    ELSE [m EXCEPT !.wctx.valuesLen = 0,
                   !.out = Append(@, [workerID |-> 0, cs |-> m.wctx.rcs]),
                   !.wctx.rcs = [i \in 1..Len(m.wctx.rcs) |->
                                    [name |-> m.wctx.rcs[i].name, values |-> <<>>]]]

\* Whether the accumulator's columns are those of block b: as many, and the other
\* columns named alike in order.
areEqualColumns(rcs, byFields, b) ==
    /\ Len(rcs) = Len(byFields) + Len(b.otherColumns)
    /\ \A i \in 1..Len(b.otherColumns) : rcs[Len(byFields) + i].name = b.otherColumns[i].name

\* The accumulator's columns named after block b: the byFields, then the others.
newResultColumns(byFields, b) ==
    [i \in 1..(Len(byFields) + Len(b.otherColumns)) |->
        [name |-> IF i <= Len(byFields) THEN byFields[i].name
                  ELSE b.otherColumns[i - Len(byFields)].name,
         values |-> <<>>]]

\* The values writeRow appends for row rr of block b, one per accumulator column.
rowValues(byFields, b, rr) ==
    [i \in 1..(Len(byFields) + Len(b.otherColumns)) |->
        IF i <= Len(byFields) THEN getValueAtRow(b.byColumns[i].c, b.br, rr.rowIdx)
        ELSE getValueAtRow(b.otherColumns[i - Len(byFields)], b.br, rr.rowIdx)]

\* The size at which writeRow flushes the accumulator.
maxValuesLen == 1000000

\* pipeSortWriteContext.writeRow(shard, rowIdx) for shard w.
writeRow(m, w, rowIdx) ==
    LET shard    == m.shards[w]
        rr       == shard.rowRefs[rowIdx + 1]
        b        == shard.blocks[rr.blockIdx + 1]
        byFields == shard.ps.byFields
        m1       == IF areEqualColumns(m.wctx.rcs, byFields, b) THEN m
                    ELSE [wctxFlush(m) EXCEPT !.wctx.rcs = newResultColumns(byFields, b)]
        vs       == rowValues(byFields, b, rr)
        m2       == [m1 EXCEPT !.wctx.rcs = [i \in 1..Len(m1.wctx.rcs) |->
                                                [m1.wctx.rcs[i] EXCEPT !.values = Append(@, vs[i])]],
                               !.wctx.valuesLen = @ + SumLen(vs)]
    IN  IF m2.wctx.valuesLen >= maxValuesLen THEN wctxFlush(m2) ELSE m2

(***************************************************************************)
(* flush: the merge loop                                                   *)
(***************************************************************************)

exhausted(shard) == shard.rowRefNext >= Len(shard.rowRefs)

\* A runner-up that is always sh[1].
pickShardNextFirstChild(m) == IF m.shardNext # NoShard THEN m.shardNext ELSE m.sh[2]

\* The runner-up the loop caches: sh[1], or sh[2] when its head is less.
pickShardNext(m) ==
    IF m.shardNext # NoShard THEN m.shardNext
    ELSE IF Len(m.sh) > 2 /\ sortBlockLess(m.shards[m.sh[3]], m.shards[m.sh[3]].rowRefNext,
                                           m.shards[m.sh[2]], m.shards[m.sh[2]].rowRefNext)
    THEN m.sh[3]
    ELSE m.sh[2]

\* Emit the head row of shard w and advance its cursor.
emitHead(m, w) ==
    [writeRow(m, w, m.shards[w].rowRefNext) EXCEPT
        !.shards[w].rowRefNext = @ + 1,
        !.emitted = Append(@, [w |-> w, rr |-> m.shards[w].rowRefs[m.shards[w].rowRefNext + 1]])]

\* One iteration of `for len(sh) > 1` up to its stop check: the new merge state and
\* the check the iteration ends at ("pop", "fix" or "none").
mergeIter(m) ==
    LET w  == m.sh[1]
        m1 == emitHead(m, w)
    IN  IF exhausted(m1.shards[w])
        THEN [m |-> [m1 EXCEPT !.sh = heapPop(m1.shards, m1.sh), !.shardNext = NoShard],
              check |-> "pop"]
        ELSE LET nxt == pickShardNext(m1)
             IN  IF sortBlockLess(m1.shards[nxt], m1.shards[nxt].rowRefNext,
                                  m1.shards[w], m1.shards[w].rowRefNext)
                 THEN [m |-> [m1 EXCEPT !.sh = heapFix(m1.shards, m1.sh, 0),
                                        !.shardNext = NoShard],
                       check |-> "fix"]
                 ELSE [m |-> [m1 EXCEPT !.shardNext = nxt], check |-> "none"]

\* The tail of flush once at most one shard is left: drain it, flush the batcher.
RECURSIVE drainShard(_, _)
drainShard(m, w) ==
    IF exhausted(m.shards[w]) THEN m ELSE drainShard(emitHead(m, w), w)

\* A tail that forgets the rows of the last shard.
mergeTailNoDrain(m) == wctxFlush(m)

mergeTail(m) ==
    wctxFlush(IF Len(m.sh) = 1 THEN drainShard(m, m.sh[1]) ELSE m)

\* The shards with rows, in shard order.
RECURSIVE nonEmptyShards(_, _, _)
nonEmptyShards(shs, w, acc) ==
    IF w \notin DOMAIN shs THEN acc
    ELSE nonEmptyShards(shs, w + 1, IF Len(shs[w].rowRefs) > 0 THEN Append(acc, w) ELSE acc)

\* The merge state flush starts its loop with, from the sorted shards.
mergeStart(shs) ==
    [shards |-> shs, sh |-> heapInit(shs, nonEmptyShards(shs, 0, <<>>)), shardNext |-> NoShard,
     wctx |-> [rcs |-> <<>>, valuesLen |-> 0], out |-> <<>>, emitted |-> <<>>]

\* An entry that looks at the stop signal before the budget.
flushEntryStopFirst(n, stopped) ==
    IF stopped THEN "stop_entry"
    ELSE IF n <= 0 THEN "budget"
    ELSE "sort"

\* Which way flush goes at its entry, given the global budget and the stop signal.
flushEntry(n, stopped) ==
    IF n <= 0 THEN "budget"
    ELSE IF stopped THEN "stop_entry"
    ELSE "sort"

MergeState ==
    [shards |-> shards, sh |-> sh, shardNext |-> shardNext, wctx |-> wctx, out |-> out,
     emitted |-> emitted]

SetMergeState(m) ==
    /\ shards' = m.shards
    /\ sh' = m.sh
    /\ shardNext' = m.shardNext
    /\ wctx' = m.wctx
    /\ out' = m.out
    /\ emitted' = m.emitted

Return(err, at) ==
    /\ fret' = [err |-> err, at |-> at]
    /\ fpc' = "done"

\* flush() is called once every worker has returned from writeBlock: the budget check
\* and the first stop check.
FlushBegin ==
    /\ fpc = "ingest"
    /\ \A w \in Workers : pending[w] = NoBlock
    /\ LET way == flushEntry(stateSizeBudget, stop)
       IN  IF way = "budget" THEN Return("memory", "budget")
           ELSE IF way = "stop_entry" THEN Return("nil", "stop_entry")
           ELSE fpc' = "sort" /\ UNCHANGED fret
    /\ UNCHANGED <<lex, parsed, ps, maxStateSize, stateSizeBudget, shards, pending, stop, cancelCalls,
                   refused, sh, shardNext, wctx, out, emitted>>

\* Every shard is sorted (in parallel, each goroutine on its own shard); wg.Wait().
FlushSort ==
    /\ fpc = "sort"
    /\ shards' = [w \in Workers |-> sortShard(shards[w])]
    /\ fpc' = "init"
    /\ UNCHANGED <<lex, parsed, ps, maxStateSize, stateSizeBudget, pending, stop, cancelCalls, refused,
                   sh, shardNext, wctx, out, emitted, fret>>

\* The stop check after the sort, the heap of the non-empty shards, heap.Init.
FlushHeapInit ==
    /\ fpc = "init"
    /\ IF stop THEN Return("nil", "stop_sorted") /\ UNCHANGED <<sh, shardNext, wctx>>
       ELSE IF nonEmptyShards(shards, 0, <<>>) = <<>>
       THEN Return("nil", "empty") /\ UNCHANGED <<sh, shardNext, wctx>>
       ELSE /\ sh' = mergeStart(shards).sh
            /\ shardNext' = NoShard
            /\ wctx' = mergeStart(shards).wctx
            /\ fpc' = "merge"
            /\ UNCHANGED fret
    /\ UNCHANGED <<lex, parsed, ps, maxStateSize, stateSizeBudget, shards, pending, stop, cancelCalls, refused,
                   out, emitted>>

\* One iteration of the merge loop, up to its stop check.
MergeIter ==
    /\ fpc = "merge"
    /\ Len(sh) > 1
    /\ LET r == mergeIter(MergeState)
       IN  /\ SetMergeState(r.m)
           /\ fpc' = IF r.check = "pop" THEN "check_pop"
                     ELSE IF r.check = "fix" THEN "check_fix" ELSE "merge"
    /\ UNCHANGED <<lex, parsed, ps, maxStateSize, stateSizeBudget, pending, stop, cancelCalls, refused, fret>>

\* A merge loop that checks the stop signal after heap.Pop only.
MergeCheckAfterPopOnly ==
    /\ fpc \in {"check_pop", "check_fix"}
    /\ IF stop /\ fpc = "check_pop" THEN Return("nil", "stop_pop")
       ELSE fpc' = "merge" /\ UNCHANGED fret
    /\ UNCHANGED <<lex, parsed, ps, maxStateSize, stateSizeBudget, shards, pending, stop, cancelCalls,
                   refused, sh, shardNext, wctx, out, emitted>>

\* The stop check after heap.Pop or heap.Fix.
MergeCheck ==
    /\ fpc \in {"check_pop", "check_fix"}
    /\ IF stop THEN Return("nil", IF fpc = "check_pop" THEN "stop_pop" ELSE "stop_fix")
       ELSE fpc' = "merge" /\ UNCHANGED fret
    /\ UNCHANGED <<lex, parsed, ps, maxStateSize, stateSizeBudget, shards, pending, stop, cancelCalls,
                   refused, sh, shardNext, wctx, out, emitted>>

\* The last shard is drained, the batcher flushed, and flush returns nil.
MergeTail ==
    /\ fpc = "merge"
    /\ Len(sh) <= 1
    /\ SetMergeState(mergeTail(MergeState))
    /\ Return("nil", "end")
    /\ UNCHANGED <<lex, parsed, ps, maxStateSize, stateSizeBudget, pending, stop, cancelCalls, refused>>

(***************************************************************************)
(* Inputs and specifications                                               *)
(***************************************************************************)

\* Field names: "k", "o", "_time".
NameK == <<107>>
NameO == <<111>>
NameTime == <<95, 116, 105, 109, 101>>

Column(name, values) == [name |-> name, isTime |-> FALSE, isConst |-> FALSE, encodedValues |-> values]

ConstColumn(name, value) == [name |-> name, isTime |-> FALSE, isConst |-> TRUE, encodedValues |-> <<value>>]

TimeColumn == [name |-> NameTime, isTime |-> TRUE, isConst |-> FALSE, encodedValues |-> <<>>]

BySortField(name, isDesc) == [name |-> name, isDesc |-> isDesc]

\* The most writeBlock calls with rows that a run makes.
MaxBlocks == 3

\* The most writeBlock calls with rows in the budget specification.
MaxCalls == 4

\* The most workers (shards) of a processor in the budget specification.
MaxWorkers == 2

\* writeBlock calls with rows made so far: ingested, refused or in their budget loop.
callsMade ==
    LET F[w \in -1..(Cardinality(Workers) - 1)] ==
            IF w = -1 THEN 0
            ELSE F[w - 1] + Len(shards[w].blocks) + (IF pending[w] = NoBlock THEN 0 ELSE 1)
    IN  F[Cardinality(Workers) - 1] + refused

\* Blocks for the ordering claims: cells "1-", "0", "1.0", const cells "1" and "9",
\* a time column, an extra column "o".
SortBlocks ==
    { [timestamps |-> <<2, 1>>, cs |-> << Column(NameK, << <<49, 45>>, <<48>> >>) >>, bytes |-> 64],
      [timestamps |-> <<1>>,
       cs |-> << Column(NameK, << <<49, 46, 48>> >>), Column(NameO, << <<97>> >>) >>, bytes |-> 64],
      [timestamps |-> <<3>>, cs |-> << TimeColumn, ConstColumn(NameK, <<49>>) >>, bytes |-> 64],
      [timestamps |-> <<1>>, cs |-> << ConstColumn(NameK, <<57>>) >>, bytes |-> 64] }

\* sort; sort desc; sort by (k); sort by (k desc); sort by (k) desc; sort by (_time, k)
SortConfigs ==
    { [byFields |-> <<>>, isDesc |-> FALSE],
      [byFields |-> <<>>, isDesc |-> TRUE],
      [byFields |-> << BySortField(NameK, FALSE) >>, isDesc |-> FALSE],
      [byFields |-> << BySortField(NameK, TRUE) >>, isDesc |-> FALSE],
      [byFields |-> << BySortField(NameK, FALSE) >>, isDesc |-> TRUE],
      [byFields |-> << BySortField(NameTime, FALSE), BySortField(NameK, FALSE) >>, isDesc |-> FALSE] }

SortWorkerCounts == {1, 2, 3}

\* Blocks for the budget claims: without rows, small, and larger than two chunks
\* (with one more column).
BudgetBlocks ==
    { [timestamps |-> <<>>, cs |-> << Column(NameK, <<>>) >>, bytes |-> 0],
      [timestamps |-> <<1>>, cs |-> << Column(NameK, << <<49>> >>) >>, bytes |-> 64],
      [timestamps |-> <<2>>, cs |-> << Column(NameK, << <<50>> >>), Column(NameO, << <<97>> >>) >>,
       bytes |-> 2 * stateSizeBudgetChunk + 64] }

BudgetConfigs == { [byFields |-> << BySortField(NameK, FALSE) >>, isDesc |-> FALSE] }

\* memory.Allowed(): 20% of it is 2, 3 or 4 chunks.
AllowedMemory == { 10 * stateSizeBudgetChunk, 15 * stateSizeBudgetChunk, 20 * stateSizeBudgetChunk }

FlushStep ==
    \/ FlushBegin
    \/ FlushSort
    \/ FlushHeapInit
    \/ MergeIter
    \/ MergeCheck
    \/ MergeTail

\* The budget controller and the lifecycle: a small memory figure, workers that call
\* writeBlock concurrently, a query that may be cancelled at any moment.
Init ==
    \E config \in BudgetConfigs, n \in 1..MaxWorkers, allowed \in AllowedMemory :
        newPipeProcessor(config, n, allowed)

Next ==
    \/ \E w \in Workers, br \in BudgetBlocks :
          (RowsLen(br) = 0 \/ callsMade < MaxCalls) /\ WriteBlock(w, br)
    \/ \E w \in Workers : StealStep(w)
    \/ Cancel
    \/ FlushStep

Spec == Init /\ [][Next]_vars

\* The ordering of the output: every sort configuration, one to three shards, memory
\* to spare, no cancellation.
InitSort ==
    \E config \in SortConfigs, n \in SortWorkerCounts :
        newPipeProcessor(config, n, 100 * stateSizeBudgetChunk)

NextSort ==
    \/ \E w \in Workers, br \in SortBlocks : callsMade < MaxBlocks /\ WriteBlock(w, br)
    \/ FlushStep

SpecSort == InitSort /\ [][NextSort]_vars

\* writeBlock called after flush() has returned, which no caller of the pipe does.
LateWriteBlock(w, br) ==
    /\ fpc = "done"
    /\ pspWriteBlock(w, br)

InitLate ==
    newPipeProcessor([byFields |-> << BySortField(NameK, FALSE) >>, isDesc |-> FALSE], 2,
                     100 * stateSizeBudgetChunk)

NextLate ==
    \/ \E w \in Workers, br \in SortBlocks : callsMade < MaxBlocks /\ WriteBlock(w, br)
    \/ \E w \in Workers, br \in SortBlocks : callsMade < MaxBlocks /\ LateWriteBlock(w, br)
    \/ FlushStep

SpecLate == InitLate /\ [][NextLate]_vars

(***************************************************************************)
(* What the claims speak of                                                *)
(***************************************************************************)

\* The rows of a block passed downstream, each the set of its <<name, value>> pairs.
outBlockRows(b) ==
    IF Len(b.cs) = 0 THEN <<>>
    ELSE [i \in 1..Len(b.cs[1].values) |->
            {<<b.cs[j].name, b.cs[j].values[i]>> : j \in 1..Len(b.cs)}]

\* The rows delivered downstream, over all the blocks of o in order.
RECURSIVE OutRows(_)
OutRows(o) == IF o = <<>> THEN <<>> ELSE outBlockRows(Head(o)) \o OutRows(Tail(o))

\* Row rowIdx of an input block, as the set of its <<name, value>> pairs.
inputRow(br, rowIdx) ==
    {<<br.cs[j].name, getValueAtRow(br.cs[j], br, rowIdx)>> : j \in 1..Len(br.cs)}

\* The rows the shards hold: [w, rr], shard and (blockIdx, rowIdx).
AllRowIds(shs) ==
    UNION { UNION { { [w |-> w, rr |-> [blockIdx |-> b - 1, rowIdx |-> r - 1]] :
                        r \in 1..RowsLen(shs[w].blocks[b].br) } :
                    b \in 1..Len(shs[w].blocks) } :
            w \in DOMAIN shs }

rowOf(shs, id) == inputRow(shs[id.w].blocks[id.rr.blockIdx + 1].br, id.rr.rowIdx)

\* The names of the sort keys.
byFieldNames == {ps.byFields[i].name : i \in 1..Len(ps.byFields)}

\* A delivered row carries the pairs of the input row, and beside them nothing but
\* an empty value for a sort key the row's block has no column of.
sameRow(delivered, input) ==
    /\ input \subseteq delivered
    /\ \A p \in delivered \ input : p[1] \in byFieldNames /\ p[2] = <<>>

Reverse(seq) == [i \in 1..Len(seq) |-> seq[Len(seq) + 1 - i]]

IsPrefix(a, b) == Len(a) <= Len(b) /\ a = SubSeq(b, 1, Len(a))

\* The shard as ingest left it: the row references in ingest order, the cursor at 0.
RECURSIVE ingestOrder(_, _)
ingestOrder(blocks, b) ==
    IF b > Len(blocks) THEN <<>>
    ELSE newRowRefs(b - 1, blocks[b].br) \o ingestOrder(blocks, b + 1)

asIngested(shard) ==
    [shard EXCEPT !.rowRefs = ingestOrder(shard.blocks, 1), !.rowRefNext = 0]

RECURSIVE runMerge(_)
runMerge(m) == IF Len(m.sh) > 1 THEN runMerge(mergeIter(m).m) ELSE mergeTail(m)

\* The merge state an uncancelled flush ends in, from the shards as ingested.
fullFlush(shs) ==
    LET sorted == [w \in DOMAIN shs |-> sortShard(asIngested(shs[w]))]
        m0     == mergeStart(sorted)
    IN  IF m0.sh = <<>> THEN m0 ELSE runMerge(m0)

\* The same shards under the configuration with the global `desc` toggled.
descToggled(shs) == [w \in DOMAIN shs |-> [shs[w] EXCEPT !.ps.isDesc = ~@]]

\* No two distinct rows compare equal: one of them is less than the other.
NoEqualRows(shs) ==
    \A a, b \in AllRowIds(shs) :
        a # b => lessRowRefs(shs[a.w], a.rr, shs[b.w], b.rr)
                 \/ lessRowRefs(shs[b.w], b.rr, shs[a.w], a.rr)

NoRowsWritten == refused = 0 /\ \A w \in Workers : shards[w].blocks = <<>> /\ pending[w] = NoBlock

StopExits == {"stop_entry", "stop_sorted", "stop_pop", "stop_fix"}

(***************************************************************************)
(* The claims                                                              *)
(***************************************************************************)

C2_AdjacentInOrder ==
    fret.at = "end" =>
        \A i \in 1..(Len(emitted) - 1) :
            ~lessRowRefs(shards[emitted[i + 1].w], emitted[i + 1].rr,
                         shards[emitted[i].w], emitted[i].rr)

\* C3: when the global budget is <= 0 as flush is entered, flush returns the memory
\* error and nothing is passed downstream, whether or not the stop signal is set; and
\* a flush that returned the memory error has passed nothing downstream.
C3_BudgetErrorFirst ==
    /\ [](fret.err = "memory" => out = <<>> /\ fpc = "done")
    /\ [][fpc = "ingest" /\ fpc' # "ingest" /\ stateSizeBudget <= 0
            => fret'.err = "memory" /\ fpc' = "done" /\ out' = <<>>]_vars

\* C3's case: flush returned the memory error with the stop signal set.
C3_Witness == fret.err = "memory" /\ stop /\ refused > 0

\* C4: flush returns the memory error only after some writeBlock was refused and
\* cancel was invoked; with no refusal and no cancel, flush returns nil.
C4_ErrorOnlyAfterRefusal ==
    /\ fret.err = "memory" => refused > 0 /\ cancelCalls > 0
    /\ fret.err # "none" /\ refused = 0 /\ cancelCalls = 0 => fret.err = "nil"

\* C5: when no block with rows was written before flush, flush returns nil and
\* nothing is passed downstream, whatever the memory figure and the worker count.
C5_EmptyInputSucceeds ==
    fret.err # "none" /\ NoRowsWritten => fret.err = "nil" /\ out = <<>>

\* C6: with a positive budget, a flush that observes the stop signal (at its entry,
\* after the sort, after heap.Pop, after heap.Fix) returns nil at that observation
\* and passes nothing downstream from then on; the rows delivered before are a prefix
\* of the rows an uncancelled flush delivers.
C6_StopEndsFlush ==
    /\ [](fret.at \in StopExits =>
            /\ fret.err = "nil"
            /\ IsPrefix(OutRows(out), OutRows(fullFlush(shards).out)))
    /\ [][stop /\ (fpc \in {"init", "check_pop", "check_fix"}
                   \/ (fpc = "ingest" /\ fpc' # "ingest" /\ stateSizeBudget > 0))
            => fret'.err = "nil" /\ fret'.at \in StopExits /\ fpc' = "done" /\ out' = out]_vars
    /\ [][fpc = "done" => out' = out]_vars

\* C6's case: the stop signal observed in the merge loop after rows were delivered,
\* with rows still in the batcher.
C6_Witness ==
    /\ fret.at \in {"stop_pop", "stop_fix"}
    /\ out # <<>>
    /\ Len(OutRows(out)) < Len(emitted)

\* C7: writeBlock invokes cancel at most once, in the very step that takes the
\* global budget from a non-negative value below zero; a refusal at a budget that
\* is already negative invokes no cancel.
C7_CancelOnce ==
    /\ [](cancelCalls <= 1)
    /\ [][(cancelCalls' # cancelCalls) <=> (stateSizeBudget >= 0 /\ stateSizeBudget' < 0)]_vars
    /\ [][cancelCalls' \in {cancelCalls, cancelCalls + 1}]_vars

\* C7's case: cancel invoked once, and another call refused without it at a budget
\* that was negative already.
C7_Witness == cancelCalls = 1 /\ refused >= 2 /\ stateSizeBudget < 0 - stateSizeBudgetChunk

\* C8: once the stop signal is set, a writeBlock call changes neither the shard
\* (blocks, rowRefs, local budget) nor the global budget.
C8_CancelledDropsInput ==
    [][stop /\ (\E w \in Workers, br \in BudgetBlocks : WriteBlock(w, br))
          => shards' = shards /\ stateSizeBudget' = stateSizeBudget]_vars

\* C9: a writeBlock call made after flush was entered changes no shard state.
C9_LateWriteIgnored ==
    [][(\E w \in Workers, br \in SortBlocks : LateWriteBlock(w, br)) => shards' = shards]_vars

\* C10: when no two distinct rows compare equal, the run with the global desc flag
\* toggled delivers the reverse row sequence.
C10_ToggledIsReverse ==
    fret.at = "end" /\ NoEqualRows(shards) /\ NoEqualRows(descToggled(shards)) =>
        OutRows(out) = Reverse(OutRows(fullFlush(descToggled(shards)).out))

(***************************************************************************)
(* A second run of the same writeBlock calls                               *)
(*                                                                         *)
(* A run r is [stateSizeBudget, shards, refused]: the global budget, the   *)
(* shards and the calls refused.  Calls are made one after the other, each *)
(* running its budget loop to its return.                                  *)
(***************************************************************************)

\* A budget loop whose refusal test is inverted.
RECURSIVE budgetLoopInverted(_, _, _)
budgetLoopInverted(r, w, br) ==
    IF r.shards[w].stateSizeBudget >= 0
    THEN [r EXCEPT !.shards[w] = shardWriteBlock(@, br)]
    ELSE LET remaining == r.stateSizeBudget - stateSizeBudgetChunk
         IN  IF remaining > 0
             THEN [r EXCEPT !.stateSizeBudget = remaining, !.refused = @ + 1]
             ELSE budgetLoopInverted([r EXCEPT !.stateSizeBudget = remaining,
                                               !.shards[w].stateSizeBudget = @ + stateSizeBudgetChunk],
                                     w, br)

\* `for shard.stateSizeBudget < 0 { ... }` and shard.writeBlock(br), to the return.
RECURSIVE budgetLoop(_, _, _)
budgetLoop(r, w, br) ==
    IF r.shards[w].stateSizeBudget >= 0
    THEN [r EXCEPT !.shards[w] = shardWriteBlock(@, br)]
    ELSE LET remaining == r.stateSizeBudget - stateSizeBudgetChunk
         IN  IF remaining < 0
             THEN [r EXCEPT !.stateSizeBudget = remaining, !.refused = @ + 1]
             ELSE budgetLoop([r EXCEPT !.stateSizeBudget = remaining,
                                       !.shards[w].stateSizeBudget = @ + stateSizeBudgetChunk],
                             w, br)

\* pipeSortProcessor.writeBlock(w, br) from its call to its return.
writeBlockRun(r, w, br) == IF RowsLen(br) = 0 THEN r ELSE budgetLoop(r, w, br)

\* A processor as constructed, with the given global budget and the workers of shs.
processorWith(budget, shs) ==
    [stateSizeBudget |-> budget,
     shards |-> [w \in DOMAIN shs |->
                    [ps |-> shs[w].ps, blocks |-> <<>>, rowRefs |-> <<>>, rowRefNext |-> 0,
                     stateSizeBudget |-> stateSizeBudgetChunk]],
     refused |-> 0]

\* The orders in which the calls that filled shs can have been made: per position the
\* worker that called, every worker as often as its shard has blocks.
Schedules(shs) ==
    LET F[w \in (DOMAIN shs) \cup {-1}] ==
            IF w = -1 THEN 0 ELSE F[w - 1] + Len(shs[w].blocks)
        n == F[Cardinality(DOMAIN shs) - 1]
    IN  {s \in [1..n -> DOMAIN shs] :
            \A w \in DOMAIN shs : Cardinality({i \in 1..n : s[i] = w}) = Len(shs[w].blocks)}

\* The run r continued with the calls of schedule s from position i on, call i being
\* the next block of shard s[i] of shs.
RECURSIVE replay(_, _, _, _)
replay(r, shs, s, i) ==
    IF i > Len(s) THEN r
    ELSE LET w  == s[i]
             k  == Cardinality({j \in 1..(i - 1) : s[j] = w})
             br == shs[w].blocks[k + 1].br
         IN  replay(writeBlockRun(r, w, br), shs, s, i + 1)

\* C11: when flush returns nil, no call was refused, and the same calls made in any
\* order on a processor that starts with twice the global budget are all accepted,
\* leave the same blocks in the same shards and a budget flush does not fail on;
\* the rows a complete flush delivers are the same in both runs.
C11_TwiceTheBudget ==
    fret.err = "nil" =>
        /\ refused = 0
        /\ \A s \in Schedules(shards) :
              LET r == replay(processorWith(2 * maxStateSize, shards), shards, s, 1)
              IN  /\ r.refused = 0
                  /\ flushEntry(r.stateSizeBudget, FALSE) = "sort"
                  /\ \A w \in Workers : r.shards[w].blocks = shards[w].blocks
                  /\ fret.at \in {"end", "empty"} =>
                        OutRows(out) = OutRows(fullFlush(r.shards).out)

\* C11's case: a flush that ran to its end after a shard took chunks from the global
\* budget.
C11_Witness ==
    /\ fret.at = "end"
    /\ stateSizeBudget < maxStateSize
    /\ out # <<>>

(***************************************************************************)
(* The query fragment parser: parsePipeSort, parseBySortFields             *)
(*                                                                         *)
(* A lexer l is [tokens, pos]: the tokens of the query text and how many   *)
(* of them were consumed; its current token is the next one, "" at the end *)
(* of the text.  A token is a string: a keyword, a punctuation mark, or a  *)
(* field name.                                                             *)
(***************************************************************************)

\* lex.token
token(l) == IF l.pos < Len(l.tokens) THEN l.tokens[l.pos + 1] ELSE ""

\* lex.nextToken()
nextToken(l) == IF l.pos < Len(l.tokens) THEN [l EXCEPT !.pos = @ + 1] ELSE l

\* lex.isKeyword(kw)
isKeyword(l, kw) == token(l) = kw

\* parseFieldName: the current token when it can name a field (it is no punctuation
\* mark and the text has not ended), consumed.
parseFieldName(l) ==
    IF token(l) \in {"", "(", ")", ",", "|"}
    THEN [err |-> TRUE, name |-> "", lex |-> l]
    ELSE [err |-> FALSE, name |-> token(l), lex |-> nextToken(l)]

\* The `for` loop of parseBySortFields from its top, with the fields bfs parsed so far.
RECURSIVE bySortFieldsLoop(_, _)
bySortFieldsLoop(l, bfs) ==
    LET l1 == nextToken(l)
    IN  IF isKeyword(l1, ")") THEN [err |-> FALSE, bfs |-> bfs, lex |-> nextToken(l1)]
        ELSE
        LET f == parseFieldName(l1)
        IN  IF f.err THEN [err |-> TRUE, bfs |-> <<>>, lex |-> l1]
            ELSE
            LET isDesc == isKeyword(f.lex, "desc")
                l2     == IF isDesc THEN nextToken(f.lex) ELSE f.lex
                bfs2   == Append(bfs, [name |-> f.name, isDesc |-> isDesc])
            IN  IF isKeyword(l2, ")") THEN [err |-> FALSE, bfs |-> bfs2, lex |-> nextToken(l2)]
                ELSE IF isKeyword(l2, ",") THEN bySortFieldsLoop(l2, bfs2)
                ELSE [err |-> TRUE, bfs |-> <<>>, lex |-> l2]

\* parseBySortFields(lex)
parseBySortFields(l) ==
    IF ~isKeyword(l, "(") THEN [err |-> TRUE, bfs |-> <<>>, lex |-> l]
    ELSE bySortFieldsLoop(l, <<>>)

\* The nil *pipeSort an error comes with.
NoConfig == [byFields |-> <<>>, isDesc |-> FALSE]

\* parsePipeSort(lex)
parsePipeSort(l) ==
    IF ~isKeyword(l, "sort") THEN [status |-> "error", ps |-> NoConfig, lex |-> l]
    ELSE
    LET l1 == nextToken(l)
        by == IF isKeyword(l1, "by") THEN parseBySortFields(nextToken(l1))
              ELSE [err |-> FALSE, bfs |-> <<>>, lex |-> l1]
    IN  IF by.err THEN [status |-> "error", ps |-> NoConfig, lex |-> by.lex]
        ELSE [status |-> "ok",
              ps |-> [byFields |-> by.bfs, isDesc |-> isKeyword(by.lex, "desc")],
              lex |-> IF isKeyword(by.lex, "desc") THEN nextToken(by.lex) ELSE by.lex]

\* The query is parsed; no processor exists yet.
ParsePipeSort ==
    /\ fpc = "parse"
    /\ parsed.status = "none"
    /\ lex' = parsePipeSort(lex).lex
    /\ parsed' = [status |-> parsePipeSort(lex).status, ps |-> parsePipeSort(lex).ps]
    /\ UNCHANGED <<ps, maxStateSize, stateSizeBudget, shards, pending, stop, cancelCalls, refused,
                   fpc, sh, shardNext, wctx, out, emitted, fret>>

\* The tokens of a query text: punctuation, the keyword desc, a field name, the pipe
\* separator.
Tokens == {"(", ")", ",", "desc", "f", "|"}

\* The most tokens after `sort` or `sort by`.
MaxTokens == 5

QueryTexts ==
    {<<"sort">> \o pre \o t :
        pre \in {<<>>, <<"by">>}, t \in UNION {[1..n -> Tokens] : n \in 0..MaxTokens}}

\* A query text before it is parsed.
InitParse ==
    /\ lex \in {[tokens |-> q, pos |-> 0] : q \in QueryTexts}
    /\ parsed = [status |-> "none", ps |-> NoConfig]
    /\ ps = NoConfig
    /\ maxStateSize = 0
    /\ stateSizeBudget = 0
    /\ shards = <<>>
    /\ pending = <<>>
    /\ stop = FALSE
    /\ cancelCalls = 0
    /\ refused = 0
    /\ fpc = "parse"
    /\ sh = <<>>
    /\ shardNext = NoShard
    /\ wctx = [rcs |-> <<>>, valuesLen |-> 0]
    /\ out = <<>>
    /\ emitted = <<>>
    /\ fret = [err |-> "none", at |-> "none"]

NextParse == ParsePipeSort

SpecParse == InitParse /\ [][NextParse]_vars

\* The tokens that follow `by` in the text.
afterBy(toks) == SubSeq(toks, 3, Len(toks))

\* The tokens of t up to its first ")" , <<>> when it has none.
upToClose(t) ==
    LET closes == {i \in 1..Len(t) : t[i] = ")"}
    IN  IF closes = {} THEN <<>>
        ELSE SubSeq(t, 1, CHOOSE i \in closes : \A j \in closes : i <= j)

\* The runs of tokens between the commas of t.
RECURSIVE betweenCommas(_, _, _)
betweenCommas(t, cur, acc) ==
    IF t = <<>> THEN Append(acc, cur)
    ELSE IF Head(t) = "," THEN betweenCommas(Tail(t), <<>>, Append(acc, cur))
    ELSE betweenCommas(Tail(t), Append(cur, Head(t)), acc)

FieldTokens == Tokens \ {"(", ")", ",", "|"}

\* field ["desc"]
IsKeyItem(item) ==
    \/ Len(item) = 1 /\ item[1] \in FieldTokens
    \/ Len(item) = 2 /\ item[1] \in FieldTokens /\ item[2] = "desc"

\* The grammar of the clause after `by`:  "(" ")"  |  "(" field ["desc"] ("," field ["desc"])* ")"
InGrammar(c) ==
    /\ Len(c) >= 2
    /\ c[1] = "("
    /\ c[Len(c)] = ")"
    /\ \/ Len(c) = 2
       \/ LET items == betweenCommas(SubSeq(c, 2, Len(c) - 1), <<>>, <<>>)
          IN  \A i \in 1..Len(items) : IsKeyItem(items[i])

\* The keys the grammar gives a clause: one per item.
keysOf(c) ==
    IF Len(c) = 2 THEN <<>>
    ELSE LET items == betweenCommas(SubSeq(c, 2, Len(c) - 1), <<>>, <<>>)
         IN  [i \in 1..Len(items) |-> [name |-> items[i][1], isDesc |-> Len(items[i]) = 2]]

\* C12: for a text `sort by ...`, the parser succeeds exactly when the tokens after
\* `by`, up to the first ")", are "(" ")" or "(" field ["desc"] ("," field ["desc"])* ")";
\* on success it has consumed that clause and the keys are those of the clause (none
\* for "(" ")", as when `by` is omitted); otherwise it returns an error and no config.
C12_ByClauseGrammar ==
    parsed.status # "none" /\ Len(lex.tokens) >= 2 /\ lex.tokens[2] = "by" =>
        LET c == upToClose(afterBy(lex.tokens))
        IN  /\ parsed.status = "ok" <=> InGrammar(c)
            /\ parsed.status = "ok" =>
                  /\ parsed.ps.byFields = keysOf(c)
                  /\ lex.pos \in {2 + Len(c), 3 + Len(c)}
            /\ parsed.status = "error" => parsed.ps = NoConfig

(***************************************************************************)
(* The comparator over cells of every kind                                 *)
(***************************************************************************)

\* Blocks whose column k holds integers (0, -0, negative, of several digits), a plain
\* string, a float, an IPv4 address, const values ("1", "10", "9"), or is missing.
LessBlocks ==
    { [timestamps |-> <<1, 2, 3>>,
       cs |-> << Column(NameK, << <<48>>, <<45, 50>>, <<49, 48>> >>) >>, bytes |-> 64],
      [timestamps |-> <<1, 2, 3>>,
       cs |-> << Column(NameK, << <<45, 48>>, <<51>>, <<45, 49, 48>> >>) >>, bytes |-> 64],
      [timestamps |-> <<1, 2, 3>>,
       cs |-> << Column(NameK, << <<49, 45>>, <<49, 46, 48>>, <<49, 46, 50, 46, 51, 46, 52>> >>) >>,
       bytes |-> 64],
      [timestamps |-> <<1, 2>>,
       cs |-> << ConstColumn(NameK, <<49>>), Column(NameO, << <<98>>, <<97>> >>) >>, bytes |-> 64],
      [timestamps |-> <<1>>, cs |-> << ConstColumn(NameK, <<49, 48>>) >>, bytes |-> 64],
      [timestamps |-> <<1>>, cs |-> << ConstColumn(NameK, <<57>>) >>, bytes |-> 64],
      [timestamps |-> <<1>>, cs |-> << Column(NameO, << <<97>> >>) >>, bytes |-> 64] }

\* sort by (k); sort by (k desc); sort by (k) desc; sort by (k desc) desc; sort by (k, o)
LessConfigs ==
    { [byFields |-> << BySortField(NameK, FALSE) >>, isDesc |-> FALSE],
      [byFields |-> << BySortField(NameK, TRUE) >>, isDesc |-> FALSE],
      [byFields |-> << BySortField(NameK, FALSE) >>, isDesc |-> TRUE],
      [byFields |-> << BySortField(NameK, TRUE) >>, isDesc |-> TRUE],
      [byFields |-> << BySortField(NameK, FALSE), BySortField(NameO, FALSE) >>, isDesc |-> FALSE] }

\* The most writeBlock calls of a run of the comparator specification.
MaxKeyBlocks == 2

InitLess ==
    \E config \in LessConfigs : newPipeProcessor(config, 2, 100 * stateSizeBudgetChunk)

NextLess ==
    \/ \E w \in Workers, br \in LessBlocks : callsMade < MaxKeyBlocks /\ WriteBlock(w, br)
    \/ FlushStep

SpecLess == InitLess /\ [][NextLess]_vars

\* sortBlockLess on two rows the shards hold.
lessRows(a, b) == lessRowRefs(shards[a.w], a.rr, shards[b.w], b.rr)

\* C13: sortBlockLess is transitive over the rows the shards hold: less(a, b) and
\* less(b, c) imply less(a, c).
C13_LessTransitive ==
    \A a, b, c \in AllRowIds(shards) :
        lessRows(a, b) /\ lessRows(b, c) => lessRows(a, c)

\* The column of a row's block that key idx names, as the block was written.
keyColumn(id, idx) == getColumnByName(shards[id.w].blocks[id.rr.blockIdx + 1].br, ps.byFields[idx].name)

\* The cell of a row under key idx.
keyCell(id, idx) ==
    getValueAtRow(keyColumn(id, idx), shards[id.w].blocks[id.rr.blockIdx + 1].br, id.rr.rowIdx)

\* The row's first key is a cell of a plain column (not const, not _time) that parses
\* as int64.
IsIntCell(id) ==
    /\ ~keyColumn(id, 1).isConst
    /\ ~keyColumn(id, 1).isTime
    /\ tryParseInt64(keyCell(id, 1)).ok

\* C14: under `sort by (k)`, for two rows whose k cells are plain cells that parse as
\* int64, less(a, b) holds exactly when a's integer is smaller than b's; a 0 cell is
\* ordered numerically too.
C14_IntCellsNumeric ==
    ps = [byFields |-> << BySortField(NameK, FALSE) >>, isDesc |-> FALSE] =>
        \A a, b \in AllRowIds(shards) :
            IsIntCell(a) /\ IsIntCell(b) =>
                (lessRows(a, b) <=>
                    tryParseInt64(keyCell(a, 1)).v < tryParseInt64(keyCell(b, 1)).v)

\* C14's case: the cells "0", "-0", "-10" and "10" sorted and merged under `sort by (k)`.
C14_Witness ==
    /\ ps = [byFields |-> << BySortField(NameK, FALSE) >>, isDesc |-> FALSE]
    /\ fret.at = "end"
    /\ \A v \in { <<48>>, <<45, 48>>, <<45, 49, 48>>, <<49, 48>> } :
          \E a \in AllRowIds(shards) : IsIntCell(a) /\ keyCell(a, 1) = v

\* The block a row is in.
blockOf(id) == shards[id.w].blocks[id.rr.blockIdx + 1]

\* The configuration with the direction of the first key and the global direction set.
withDirections(config, keyDesc, descAll) ==
    [config EXCEPT !.byFields[1].isDesc = keyDesc, !.isDesc = descAll]

\* C15: for two rows whose first key column is const in both blocks, less(a, b) is the
\* byte-wise a < b of the two const values when they differ, under every setting of
\* the key's desc flag and of the global desc flag (so "10" is less than "9"); when
\* they are equal, less(a, b) is what the keys after the first decide.
C15_ConstFastPath ==
    \A a, b \in AllRowIds(shards) :
        keyColumn(a, 1).isConst /\ keyColumn(b, 1).isConst =>
            IF keyCell(a, 1) # keyCell(b, 1)
            THEN /\ lessRows(a, b) <=> StrLess(keyCell(a, 1), keyCell(b, 1))
                 /\ \A keyDesc \in BOOLEAN, descAll \in BOOLEAN :
                       lessFrom(withDirections(ps, keyDesc, descAll),
                                blockOf(a), a.rr, blockOf(b), b.rr, 1) = lessRows(a, b)
            ELSE lessRows(a, b) <=> lessFrom(ps, blockOf(a), a.rr, blockOf(b), b.rr, 2)

\* C15's case: the const values "10" and "9" merged from two shards under a descending
\* direction.
C15_Witness ==
    /\ ps.isDesc
    /\ fret.at = "end"
    /\ \E a, b \in AllRowIds(shards) :
          /\ a.w # b.w
          /\ keyColumn(a, 1).isConst /\ keyCell(a, 1) = <<49, 48>>
          /\ keyColumn(b, 1).isConst /\ keyCell(b, 1) = <<57>>

\* sortBlockLess is a strict weak order on the rows of shs: irreflexive, transitive,
\* and with a transitive "neither is less".
StrictWeakOrder(shs) ==
    LET lt(a, b) == lessRowRefs(shs[a.w], a.rr, shs[b.w], b.rr)
        eq(a, b) == ~lt(a, b) /\ ~lt(b, a)
    IN  \A a, b, c \in AllRowIds(shs) :
            /\ ~lt(a, a)
            /\ lt(a, b) /\ lt(b, c) => lt(a, c)
            /\ eq(a, b) /\ eq(b, c) => eq(a, c)

\* C16: when sortBlockLess is a strict weak order on the rows written, every row the
\* merge emits is a minimum of the rows that remained when it was emitted: no row
\* emitted later, and no row still in a shard, is less than it.  Rows are emitted by
\* the steps that leave the "merge" position, so the states after them are the ones
\* to look at: a state at "merge" has the rows and the emissions of the one before.
C16_EmitsMinimum ==
    fpc # "merge" =>
        \A i \in 1..Len(emitted) :
            \A r \in AllRowIds(shards) \ {emitted[j] : j \in 1..i} :
                lessRows(r, emitted[i]) => ~StrictWeakOrder(shards)

\* C16's case: heap.Fix was skipped twice in a row on the cached runner-up (the top
\* shard emitted two rows and is still the top), with rows left in both shards.
C16_Witness ==
    /\ fpc = "merge"
    /\ Len(sh) >= 2
    /\ shardNext # NoShard
    /\ Len(emitted) >= 2
    /\ emitted[Len(emitted)].w = sh[1]
    /\ emitted[Len(emitted) - 1].w = sh[1]
    /\ StrictWeakOrder(shards)

\* C17: while blocks are written, every shard's local budget is at least minus one
\* chunk.
C17_ShardBudgetFloor ==
    fpc = "ingest" =>
        \A w \in Workers : shards[w].stateSizeBudget >= 0 - stateSizeBudgetChunk

(***************************************************************************)
(* The output batcher at its size threshold                                *)
(***************************************************************************)

\* A value of n bytes "a", n >= 2.
Bytes(n) == <<0 - n>>

\* Blocks for the batcher: a row whose values take maxValuesLen bytes (k of one byte,
\* o of the rest), a small row of the same columns, a row without the column o.
BatchBlocks ==
    { [timestamps |-> <<1>>,
       cs |-> << Column(NameK, << <<50>> >>), Column(NameO, << Bytes(maxValuesLen - 1) >>) >>,
       bytes |-> maxValuesLen + 64],
      [timestamps |-> <<2>>,
       cs |-> << Column(NameK, << <<49>> >>), Column(NameO, << <<97>> >>) >>, bytes |-> 64],
      [timestamps |-> <<3>>, cs |-> << Column(NameK, << <<51>> >>) >>, bytes |-> 64] }

\* The most writeBlock calls of a run of the batcher specification.
MaxBatchBlocks == 2

InitBatch ==
    newPipeProcessor([byFields |-> << BySortField(NameK, FALSE) >>, isDesc |-> FALSE], 2,
                     100 * stateSizeBudgetChunk)

NextBatch ==
    \/ \E w \in Workers, br \in BatchBlocks : callsMade < MaxBatchBlocks /\ WriteBlock(w, br)
    \/ FlushStep

SpecBatch == InitBatch /\ [][NextBatch]_vars

\* The bytes of the values the accumulator holds.
heldBytes(wc) ==
    LET F[i \in 0..Len(wc.rcs)] == IF i = 0 THEN 0 ELSE F[i - 1] + SumLen(wc.rcs[i].values)
    IN  F[Len(wc.rcs)]

\* The batcher after each writeRow of the drain of shard w.
RECURSIVE drainTrace(_, _)
drainTrace(m, w) ==
    IF exhausted(m.shards[w]) THEN <<>>
    ELSE <<emitHead(m, w).wctx>> \o drainTrace(emitHead(m, w), w)

\* The counter is the bytes held, and below the threshold.
CounterExact(wc) == wc.valuesLen = heldBytes(wc) /\ wc.valuesLen < maxValuesLen

\* C18: after every writeRow (of a merge iteration, or of the drain of the last shard)
\* valuesLen is the byte length of the values the accumulator holds and is below
\* 1,000,000; after the final flush it is 0 and the accumulator holds no value.
C18_CounterExact ==
    /\ fpc \in {"merge", "check_pop", "check_fix"} => CounterExact(wctx)
    /\ fpc = "merge" /\ Len(sh) = 1 =>
          \A i \in 1..Len(drainTrace(MergeState, sh[1])) :
              CounterExact(drainTrace(MergeState, sh[1])[i])
    /\ fret.at = "end" => wctx.valuesLen = 0 /\ heldBytes(wctx) = 0

\* C18's case: the writeRow of a merge iteration has flushed on reaching the threshold;
\* the accumulator keeps its two columns and holds no value.
C18_Witness ==
    /\ fpc = "check_pop"
    /\ Len(out) = 1
    /\ Len(wctx.rcs) = 2
    /\ wctx.valuesLen = 0

\* C19: every block passed downstream has at least one row.
C19_NoEmptyBlock ==
    \A i \in 1..Len(out) : Len(out[i].cs) > 0 /\ Len(out[i].cs[1].values) >= 1

(***************************************************************************)
(* Row references of a shard                                               *)
(***************************************************************************)

\* The pairs (b, r) of a shard's blocks.
shardRowRefs(shard) ==
    UNION { { [blockIdx |-> b - 1, rowIdx |-> r - 1] : r \in 1..RowsLen(shard.blocks[b].br) } :
            b \in 1..Len(shard.blocks) }

\* rowRefs holds each pair of the shard's blocks exactly once.
EachRowOnce(shard) ==
    /\ {shard.rowRefs[i] : i \in 1..Len(shard.rowRefs)} = shardRowRefs(shard)
    /\ Len(shard.rowRefs) = Cardinality(shardRowRefs(shard))

\* Source blocks are appended by writeBlock and touched by nothing else.
BlocksKept ==
    \A w \in Workers :
        /\ Len(shards'[w].blocks) >= Len(shards[w].blocks)
        /\ SubSeq(shards'[w].blocks, 1, Len(shards[w].blocks)) = shards[w].blocks
        /\ fpc # "ingest" => shards'[w].blocks = shards[w].blocks

\* C20: a shard's rowRefs hold each pair (b, r) of its blocks exactly once, in ingest
\* order until the local sort and as a permutation of the same pairs after it; blocks
\* are only ever appended, never reordered or modified.
C20_RowRefsExact ==
    /\ [](\A w \in Workers :
             /\ EachRowOnce(shards[w])
             /\ fpc \in {"ingest", "sort"} => shards[w].rowRefs = ingestOrder(shards[w].blocks, 1))
    /\ [][BlocksKept]_vars

\* C20's case: the local sort has permuted the rows of a shard of two blocks or more.
C20_Witness ==
    /\ fpc = "init"
    /\ \E w \in Workers :
          /\ Len(shards[w].blocks) >= 2
          /\ shards[w].rowRefs # ingestOrder(shards[w].blocks, 1)
          /\ shards[w].rowRefs[1].blockIdx = 1

====
